---------------------------- MODULE Spec2Model ----------------------------
(***************************************************************************)
(* A model of syft/messaging/plan/procedure.py: the Procedure class, its   *)
(* identifier-substitution routines (update_args, update_worker_ids,       *)
(* update_ids, replace_operation_ids), copy() and simplify()/detail().     *)
(*                                                                         *)
(* Python values are records [k, v, e]: k is the Python type, v the value  *)
(* of a leaf, e the elements of a list or tuple.  Python's == on the       *)
(* values modelled here (int, str, bytes, None, list, tuple; no bool, no   *)
(* float) is structural equality, so TLA+'s = models it.                   *)
(***************************************************************************)
EXTENDS Integers, Sequences, FiniteSets, TLC

VARIABLES
    heap,    \* the operations lists, by address: the mutable objects
    procs,   \* the Procedure objects, by name: their four attributes
    fault,   \* "none", or the exception that ended the program
    call,    \* the last call: [op, self, a, b, c, d]
    pre,     \* heap and procs as they were when the last call began
    ret,     \* what the last call of a static method returned
    hist     \* history: the first state, the state at copy(), who changed since

vars == <<heap, procs, fault, call, pre, ret, hist>>

\* ------------------------------------------------------------------ bounds
\* Integer ids are 0 .. MaxInt (0 is the falsy one).
MaxInt == 1
\* String ids are named 1 .. MaxStr.
MaxStr == 2
\* At most MaxCalls substitution calls are made on a Procedure and its copy.
MaxCalls == 2
\* A replayed Procedure draws its ids from MaxFresh integers beyond MaxInt as well.
MaxFresh == 3

\* ------------------------------------------------------------ Python values
PyInt(n) == [k |-> "int", v |-> n, e |-> <<>>]
PyStr(n) == [k |-> "str", v |-> n, e |-> <<>>]
PyBytes(n) == [k |-> "bytes", v |-> n, e |-> <<>>]
PyNone == [k |-> "None", v |-> 0, e |-> <<>>]
PyList(s) == [k |-> "list", v |-> 0, e |-> s]
PyTuple(s) == [k |-> "tuple", v |-> 0, e |-> s]

\* The exception raised by to_ids[from_ids.index(item)] when to_ids is shorter.
IndexError == [k |-> "IndexError", v |-> 0, e |-> <<>>]

IsContainer(x) == x.k \in {"list", "tuple"}

\* Python truthiness of an id: None and 0 are falsy; the strings drawn here
\* are non-empty.
Truthy(x) ==
    CASE x.k = "None" -> FALSE
      [] x.k = "int" -> x.v # 0
      [] x.k \in {"list", "tuple"} -> Len(x.e) > 0
      [] OTHER -> TRUE

\* The name "add" and the like (an encoded command or payload): bytes 0.
Cmd == PyBytes(0)

\* ------------------------------------------------------------------- codec
\* sy.serde._simplify on an id: an int (and PyNone) is its own encoding, a str
\* becomes a tuple of primitives holding its bytes.
serde_simplify(obj) ==
    IF obj.k = "str" THEN PyTuple(<<PyBytes(obj.v)>>) ELSE obj

IsSimplifiedStr(x) ==
    x.k = "tuple" /\ Len(x.e) = 1 /\ x.e[1].k = "bytes"

\* sy.serde._detail on an encoded id: the inverse of serde_simplify.
serde_detail(x) ==
    IF IsSimplifiedStr(x) THEN PyStr(x.e[1].v) ELSE x

\* _simplify / _detail on a list or tuple of ids: element-wise, the container
\* kept.
serde_simplify_ids(c) == [c EXCEPT !.e = [i \in DOMAIN c.e |-> serde_simplify(c.e[i])]]
serde_detail_ids(c) == [c EXCEPT !.e = [i \in DOMAIN c.e |-> serde_detail(c.e[i])]]

\* _simplify / _detail with shallow=True: the elements are left as they are.
serde_simplify_shallow(ops) == ops
serde_detail_shallow(ops) == ops

\* ------------------------------------------------- replace_operation_ids
\* A variant of Index that finds the last index holding item.
IndexLast(ids, item) ==
    IF \E i \in DOMAIN ids : ids[i] = item
    THEN CHOOSE i \in DOMAIN ids : ids[i] = item /\ \A j \in (i + 1)..Len(ids) : ids[j] # item
    ELSE 0

\* from_ids.index(item): the first index holding item (0 when absent).
Index(ids, item) ==
    IF \E i \in DOMAIN ids : ids[i] = item
    THEN CHOOSE i \in DOMAIN ids : ids[i] = item /\ \A j \in 1..(i - 1) : ids[j] # item
    ELSE 0

\* isinstance(item, (int, tuple)) and item in from_ids
IsTarget(item, from_ids) ==
    item.k \in {"int", "tuple"} /\ \E i \in DOMAIN from_ids : from_ids[i] = item

\* A variant of replace_operation_ids that does not descend into nested
\* containers.
replace_operation_ids_flat(operation, from_ids, to_ids) ==
    LET items == operation.e
        new(i) ==
            IF IsTarget(items[i], from_ids)
            THEN IF Index(from_ids, items[i]) \in DOMAIN to_ids
                 THEN to_ids[Index(from_ids, items[i])]
                 ELSE IndexError
            ELSE items[i]
        out == [i \in DOMAIN items |-> new(i)]
    IN  IF \E i \in DOMAIN out : out[i] = IndexError
        THEN IndexError
        ELSE [k |-> operation.k, v |-> operation.v, e |-> out]

\* A variant of replace_operation_ids that returns the working list
\* instead of type_obj(operation).
RECURSIVE replace_operation_ids_as_list(_, _, _)
replace_operation_ids_as_list(operation, from_ids, to_ids) ==
    LET items == operation.e
        new(i) ==
            IF IsTarget(items[i], from_ids)
            THEN IF Index(from_ids, items[i]) \in DOMAIN to_ids
                 THEN to_ids[Index(from_ids, items[i])]
                 ELSE IndexError
            ELSE IF IsContainer(items[i])
                 THEN replace_operation_ids_as_list(items[i], from_ids, to_ids)
                 ELSE items[i]
        out == [i \in DOMAIN items |-> new(i)]
    IN  IF \E i \in DOMAIN out : out[i] = IndexError
        THEN IndexError
        ELSE PyList(out)

\* A variant of replace_operation_ids that leaves an item in place when
\* to_ids has no element at its index.
RECURSIVE replace_operation_ids_lenient(_, _, _)
replace_operation_ids_lenient(operation, from_ids, to_ids) ==
    LET items == operation.e
        new(i) ==
            IF IsTarget(items[i], from_ids)
            THEN IF Index(from_ids, items[i]) \in DOMAIN to_ids
                 THEN to_ids[Index(from_ids, items[i])]
                 ELSE items[i]
            ELSE IF IsContainer(items[i])
                 THEN replace_operation_ids_lenient(items[i], from_ids, to_ids)
                 ELSE items[i]
    IN  [k |-> operation.k, v |-> operation.v, e |-> [i \in DOMAIN items |-> new(i)]]

RECURSIVE replace_operation_ids(_, _, _)
replace_operation_ids(operation, from_ids, to_ids) ==
    LET items == operation.e
        new(i) ==
            IF IsTarget(items[i], from_ids)
            THEN IF Index(from_ids, items[i]) \in DOMAIN to_ids
                 THEN to_ids[Index(from_ids, items[i])]
                 ELSE IndexError
            ELSE IF IsContainer(items[i])
                 THEN replace_operation_ids(items[i], from_ids, to_ids)
                 ELSE items[i]
        out == [i \in DOMAIN items |-> new(i)]
    IN  IF \E i \in DOMAIN out : out[i] = IndexError
        THEN IndexError
        ELSE [k |-> operation.k, v |-> operation.v, e |-> out]


\* ------------------------------------------------------------- Procedure
\* x or []
OrEmptyList(x) == IF Truthy(x) THEN x ELSE PyList(<<>>)

\* Procedure.__init__: operations is the address of the operations list.
Procedure(operations, arg_ids, result_ids) ==
    [operations |-> operations,
     arg_ids |-> OrEmptyList(arg_ids),
     result_ids |-> OrEmptyList(result_ids),
     promise_out_id |-> PyNone]

\* update_ids, lines 79-83 and 85-89: the encoded from/to lists of a
\* substitution; on is FALSE where the code leaves both lists None.
WorkersSimplified(from_worker, to_worker) ==
    IF Truthy(from_worker) /\ Truthy(to_worker)
    THEN [on |-> TRUE, from |-> <<serde_simplify(from_worker)>>,
          to |-> <<serde_simplify(to_worker)>>]
    ELSE [on |-> FALSE, from |-> <<>>, to |-> <<>>]

IdsSimplified(from_ids, to_ids) ==
    IF Len(from_ids) # 0 /\ Len(to_ids) # 0
    THEN [on |-> TRUE, from |-> [i \in DOMAIN from_ids |-> serde_simplify(from_ids[i])],
          to |-> [i \in DOMAIN to_ids |-> serde_simplify(to_ids[i])]]
    ELSE [on |-> FALSE, from |-> <<>>, to |-> <<>>]

\* The pairs of ids applied one after the other, each to the result of the
\* one before.
RECURSIVE ReplaceInTurn(_, _, _, _)
ReplaceInTurn(operation, from_ids, to_ids, i) ==
    IF operation = IndexError \/ i > Len(from_ids) THEN operation
    ELSE ReplaceInTurn(
             replace_operation_ids(operation, <<from_ids[i]>>,
                                   IF i \in DOMAIN to_ids THEN <<to_ids[i]>> ELSE <<>>),
             from_ids, to_ids, i + 1)

\* A variant of RewriteOperation that substitutes the ids pair by pair.
RewriteOperation_chained(operation, workers, ids) ==
    LET o1 == IF workers.on
              THEN replace_operation_ids(operation, workers.from, workers.to)
              ELSE operation
    IN  IF o1 = IndexError THEN IndexError
        ELSE IF ids.on THEN ReplaceInTurn(o1, ids.from, ids.to, 1)
        ELSE o1

\* update_ids, lines 92-100: one operation through the worker substitution
\* and then the id substitution; IndexError when either raises.
RewriteOperation(operation, workers, ids) ==
    LET o1 == IF workers.on
              THEN replace_operation_ids(operation, workers.from, workers.to)
              ELSE operation
    IN  IF o1 = IndexError THEN IndexError
        ELSE IF ids.on THEN replace_operation_ids(o1, ids.from, ids.to)
        ELSE o1

\* update_ids, lines 91-104, on the operations list: every operation is
\* rewritten and stored back in turn; an exception leaves the operations
\* before the raising one rewritten and the rest as they were.
update_ids(operations, from_ids, to_ids, from_worker, to_worker) ==
    LET workers == WorkersSimplified(from_worker, to_worker)
        ids == IdsSimplified(from_ids, to_ids)
        new == [i \in DOMAIN operations |-> RewriteOperation(operations[i], workers, ids)]
        raising == {i \in DOMAIN operations : new[i] = IndexError}
        stop == IF raising = {} THEN Len(operations) + 1
                ELSE CHOOSE i \in raising : \A j \in raising : i <= j
    IN  [operations |-> [i \in DOMAIN operations |-> IF i < stop THEN new[i] ELSE operations[i]],
         fault |-> IF raising = {} THEN "none" ELSE "IndexError"]

\* A variant of update_args that does not store the new arg ids.
update_args_keeps_arg_ids(operations, self, args, result_ids) ==
    LET arg_ids == PyTuple(args)
        r1 == update_ids(operations, self.arg_ids.e, arg_ids.e, PyNone, PyNone)
        r2 == update_ids(r1.operations, self.result_ids.e, result_ids.e, PyNone, PyNone)
    IN  IF r2.fault # "none" \/ r1.fault # "none"
        THEN [operations |-> r2.operations, self |-> self,
              fault |-> IF r1.fault # "none" THEN r1.fault ELSE r2.fault]
        ELSE [operations |-> r2.operations,
              self |-> [self EXCEPT !.result_ids = result_ids],
              fault |-> "none"]

\* update_args, lines 52-57, on one Procedure: the operations list, the
\* two id attributes and the exception it ends with.
update_args(operations, self, args, result_ids) ==
    LET arg_ids == PyTuple(args)
        r1 == update_ids(operations, self.arg_ids.e, arg_ids.e, PyNone, PyNone)
        r2 == update_ids(r1.operations, self.result_ids.e, result_ids.e, PyNone, PyNone)
    IN  IF r1.fault # "none"
        THEN [operations |-> r1.operations, self |-> self, fault |-> r1.fault]
        ELSE IF r2.fault # "none"
        THEN [operations |-> r2.operations,
              self |-> [self EXCEPT !.arg_ids = arg_ids], fault |-> r2.fault]
        ELSE [operations |-> r2.operations,
              self |-> [self EXCEPT !.arg_ids = arg_ids, !.result_ids = result_ids],
              fault |-> "none"]

\* A variant of copy that hands the new Procedure the operations list of
\* the original instead of a deep copy.
copy_shallow(h, self) ==
    [heap |-> h,
     procedure |-> Procedure(self.operations, self.arg_ids, self.result_ids)]

\* Procedure.copy on the heap h: copy.deepcopy(self.operations) is a new
\* list of equal records at a new address; arg_ids and result_ids are the
\* same objects (never mutated in place: lines 54 and 57 rebind them).
copy(h, self) ==
    [heap |-> Append(h, h[self.operations]),
     procedure |-> Procedure(Len(h) + 1, self.arg_ids, self.result_ids)]

\* Procedure.simplify: the 4-tuple on the wire.
simplify(operations, procedure) ==
    PyTuple(<<PyList(serde_simplify_shallow(operations)),
              serde_simplify_ids(procedure.arg_ids),
              serde_simplify_ids(procedure.result_ids),
              serde_simplify(procedure.promise_out_id)>>)

\* Procedure.detail: the attributes of the Procedure it builds and the
\* content of its operations list.
detail(procedure_tuple) ==
    LET operations == serde_detail_shallow(procedure_tuple.e[1].e)
        arg_ids == serde_detail_ids(procedure_tuple.e[2])
        result_ids == serde_detail_ids(procedure_tuple.e[3])
        promise_out_id == procedure_tuple.e[4]
    IN  [operations |-> operations, arg_ids |-> arg_ids, result_ids |-> result_ids,
         promise_out_id |-> promise_out_id]

\* ---------------------------------------------------------------- inputs
IntIds == {PyInt(n) : n \in 0..MaxInt}
StrIds == {PyStr(n) : n \in 1..MaxStr}
Ids == IntIds \cup StrIds
SimplifiedIds == {serde_simplify(id) : id \in Ids}
\* What a position of an operation record may hold besides a nested record.
Leaves == SimplifiedIds \cup {Cmd, PyNone}

SeqsUpTo(S, n) == UNION {[1..m -> S] : m \in 0..n}

\* Operation records: flat, nested two deep and nested three deep, lists
\* and tuples mixed.
Flat(x, y) == PyTuple(<<Cmd, x, y>>)
Nested(x, y) == PyList(<<x, PyTuple(<<y, PyList(<<x>>)>>)>>)
Deep(x, y) == PyTuple(<<Cmd, PyList(<<y, PyTuple(<<x, y>>)>>), x>>)
Records ==
    {Flat(x, y) : x \in Leaves, y \in Leaves}
    \cup {Nested(x, y) : x \in Leaves, y \in Leaves}
    \cup {Deep(x, y) : x \in Leaves, y \in Leaves}

Pending == [k |-> "pending", v |-> 0, e |-> <<>>]
NoCall == [op |-> "none", self |-> "", a |-> PyNone, b |-> PyNone, c |-> PyNone, d |-> PyNone]
NoState == [heap |-> <<>>, procs |-> <<>>]
NoCallRecord == [call |-> NoCall, pre |-> NoState]
NoHist == [orig |-> NoState, atcopy |-> NoState, touched |-> {}, ncalls |-> 0,
           prev |-> NoCallRecord]

\* ------------------------------------------------------ positions of a record
\* The positions of a value: the index paths from it down to every element
\* at every depth (<<>> is the value itself).
RECURSIVE Paths(_)
Paths(x) ==
    IF IsContainer(x)
    THEN {<<>>} \cup UNION {{<<i>> \o p : p \in Paths(x.e[i])} : i \in DOMAIN x.e}
    ELSE {<<>>}

Missing == [k |-> "missing", v |-> 0, e |-> <<>>]

\* The value at a position (Missing when the value has no such position).
RECURSIVE At(_, _)
At(x, path) ==
    IF path = <<>> THEN x
    ELSE IF IsContainer(x) /\ Head(path) \in DOMAIN x.e
         THEN At(x.e[Head(path)], Tail(path))
         ELSE Missing

Prefix(path, n) == SubSeq(path, 1, n)

\* The container types and lengths of a value at every depth, leaves erased.
RECURSIVE Shape(_)
Shape(x) ==
    IF IsContainer(x)
    THEN [k |-> x.k, v |-> 0, e |-> [i \in DOMAIN x.e |-> Shape(x.e[i])]]
    ELSE [k |-> "leaf", v |-> 0, e |-> <<>>]

\* ---------------------------------------------------------------- actions
Snapshot == [heap |-> heap, procs |-> procs]
Operations(self) == heap[procs[self].operations]
Call(op, self, a, b, c, d) == [op |-> op, self |-> self, a |-> a, b |-> b, c |-> c, d |-> d]

\* The ids (encoded) that occur at some position of some operation.
OccursIn(operations, id) ==
    \E i \in DOMAIN operations : \E path \in Paths(operations[i]) :
        At(operations[i], path) = serde_simplify(id)

\* The history after a substitution call on self (ncalls counts these).
Called(self) ==
    [hist EXCEPT !.ncalls = @ + 1,
                 !.touched = @ \cup {self},
                 !.prev = [call |-> call, pre |-> pre]]

\* What p.update_args(args, result_ids) does to the program's objects; args
\* are given by their ids.
UpdateArgsEffect(self, args, result_ids) ==
    /\ fault = "none"
    /\ self \in DOMAIN procs
    /\ LET r == update_args(Operations(self), procs[self], args, result_ids)
       IN  /\ heap' = [heap EXCEPT ![procs[self].operations] = r.operations]
           /\ procs' = [procs EXCEPT ![self] = r.self]
           /\ fault' = r.fault
    /\ call' = Call("update_args", self, PyTuple(args), result_ids, PyNone, PyNone)

\* p.update_args(args, result_ids)
UpdateArgs(self, args, result_ids) ==
    /\ UpdateArgsEffect(self, args, result_ids)
    /\ pre' = Snapshot
    /\ hist' = Called(self)
    /\ UNCHANGED ret

\* p.update_ids(from_ids, to_ids, from_worker, to_worker)
UpdateIds(self, from_ids, to_ids, from_worker, to_worker) ==
    /\ fault = "none"
    /\ self \in DOMAIN procs
    /\ LET r == update_ids(Operations(self), from_ids.e, to_ids.e, from_worker, to_worker)
       IN  /\ heap' = [heap EXCEPT ![procs[self].operations] = r.operations]
           /\ fault' = r.fault
    /\ call' = Call("update_ids", self, from_ids, to_ids, from_worker, to_worker)
    /\ pre' = Snapshot
    /\ hist' = Called(self)
    /\ UNCHANGED <<procs, ret>>

\* p.update_worker_ids(from_worker_id, to_worker_id)
UpdateWorkerIds(self, from_worker_id, to_worker_id) ==
    /\ fault = "none"
    /\ self \in DOMAIN procs
    /\ LET r == update_ids(Operations(self), <<>>, <<>>, from_worker_id, to_worker_id)
       IN  /\ heap' = [heap EXCEPT ![procs[self].operations] = r.operations]
           /\ fault' = r.fault
    /\ call' = Call("update_worker_ids", self, from_worker_id, to_worker_id, PyNone, PyNone)
    /\ pre' = Snapshot
    /\ hist' = Called(self)
    /\ UNCHANGED <<procs, ret>>

\* name = p.copy()
Copy(self, name) ==
    /\ fault = "none"
    /\ self \in DOMAIN procs
    /\ name \notin DOMAIN procs
    /\ LET r == copy(heap, procs[self])
       IN  /\ heap' = r.heap
           /\ procs' = [n \in DOMAIN procs \cup {name} |->
                           IF n = name THEN r.procedure ELSE procs[n]]
    /\ call' = Call("copy", self, PyNone, PyNone, PyNone, PyNone)
    /\ pre' = Snapshot
    /\ hist' = [hist EXCEPT !.atcopy = [heap |-> heap', procs |-> procs'],
                            !.touched = {},
                            !.prev = [call |-> call, pre |-> pre]]
    /\ UNCHANGED <<fault, ret>>

\* ret = Procedure.simplify(worker, p)
Simplify(self) ==
    /\ fault = "none"
    /\ self \in DOMAIN procs
    /\ call.op = "none"
    /\ ret' = simplify(Operations(self), procs[self])
    /\ call' = Call("simplify", self, PyNone, PyNone, PyNone, PyNone)
    /\ pre' = Snapshot
    /\ UNCHANGED <<heap, procs, fault, hist>>

\* name = Procedure.detail(worker, ret): a new Procedure with a new
\* operations list.
Detail(name) ==
    /\ fault = "none"
    /\ call.op = "simplify"
    /\ name \notin DOMAIN procs
    /\ LET r == detail(ret)
           new == [Procedure(Len(heap) + 1, r.arg_ids, r.result_ids)
                      EXCEPT !.promise_out_id = r.promise_out_id]
       IN  /\ heap' = Append(heap, r.operations)
           /\ procs' = [n \in DOMAIN procs \cup {name} |->
                           IF n = name THEN new ELSE procs[n]]
    /\ call' = Call("detail", call.self, ret, PyNone, PyNone, PyNone)
    /\ pre' = Snapshot
    /\ UNCHANGED <<fault, ret, hist>>

\* ------------------------------------------- replace_operation_ids, alone
InitReplace ==
    /\ heap = <<>>
    /\ procs = <<>>
    /\ fault = "none"
    /\ \E operation \in Records :
       \E from_ids \in SeqsUpTo(SimplifiedIds, 2) \ {<<>>} :
       \E to_ids \in SeqsUpTo(SimplifiedIds, 2) \ {<<>>} :
          call = [op |-> "replace_operation_ids", self |-> "", a |-> operation,
                  b |-> PyList(from_ids), c |-> PyList(to_ids), d |-> PyNone]
    /\ pre = NoState
    /\ ret = Pending
    /\ hist = NoHist

Replace ==
    /\ ret = Pending
    /\ ret' = replace_operation_ids(call.a, call.b.e, call.c.e)
    /\ UNCHANGED <<heap, procs, fault, call, pre, hist>>

SpecReplace == InitReplace /\ [][Replace]_vars


\* ------------------------------------------------ what a substitution is
\* The statements below describe a rewrite position by position, without
\* the model's own operators for matching and indexing.
Enc(ids) == [i \in DOMAIN ids |-> serde_simplify(ids[i])]

Matches(item, from_ids) ==
    item.k \in {"int", "tuple"} /\ \E i \in DOMAIN from_ids : from_ids[i] = item

\* An element the rewrite comes to: no element above it was replaced whole.
Reached(operation, from_ids, path) ==
    /\ path # <<>>
    /\ \A n \in 1..(Len(path) - 1) : ~Matches(At(operation, Prefix(path, n)), from_ids)

FirstAt(from_ids, item, i) ==
    /\ i \in DOMAIN from_ids
    /\ from_ids[i] = item
    /\ \A j \in 1..(i - 1) : from_ids[j] # item

SameContainer(a, b) == a.k = b.k /\ Len(a.e) = Len(b.e)

\* after is before with every reached int or tuple that equals an entry of
\* from_ids replaced by to_ids at its first index in from_ids, every other
\* leaf as it was and every container of the same type and length.
Substituted(before, after, from_ids, to_ids) ==
    /\ SameContainer(before, after)
    /\ \A path \in Paths(before) :
          Reached(before, from_ids, path) =>
             LET item == At(before, path)
             IN  IF Matches(item, from_ids)
                 THEN \E i \in DOMAIN to_ids :
                         FirstAt(from_ids, item, i) /\ At(after, path) = to_ids[i]
                 ELSE IF IsContainer(item)
                      THEN SameContainer(item, At(after, path))
                      ELSE At(after, path) = item

AllSubstituted(before, after, from_ids, to_ids) ==
    /\ Len(before) = Len(after)
    /\ \A i \in DOMAIN before : Substituted(before[i], after[i], from_ids, to_ids)

\* Some operation holds, where the rewrite reaches it, a from id whose
\* first index in from_ids is beyond the end of to_ids.
HoldsUnpaired(operations, from_ids, to_ids) ==
    \E n \in DOMAIN operations : \E path \in Paths(operations[n]) :
        /\ Reached(operations[n], from_ids, path)
        /\ Matches(At(operations[n], path), from_ids)
        /\ \E i \in DOMAIN from_ids :
              FirstAt(from_ids, At(operations[n], path), i) /\ i > Len(to_ids)

PreOperations == pre.heap[pre.procs[call.self].operations]
PostOperations == heap[procs[call.self].operations]

\* ----------------------------------------------------------- C5 and C6
Returned == call.op = "replace_operation_ids" /\ ret # Pending

\* C5: with from_ids and to_ids of equal length, every element at any depth
\* that is an int or a tuple and equals an entry of from_ids is replaced by
\* the entry of to_ids at the first index where it occurs in from_ids (and
\* is not descended into), and every other leaf is the leaf of the input at
\* the same position.
C5_TargetedSubstitution ==
    (Returned /\ Len(call.b.e) = Len(call.c.e)) =>
        /\ ret # IndexError
        /\ Substituted(call.a, ret, call.b.e, call.c.e)

\* A call where first-match matters (an id twice in from_ids), a tuple is
\* replaced whole and an id nested three deep is replaced.
C5_Witness ==
    /\ Returned
    /\ Len(call.b.e) = 2 /\ Len(call.c.e) = 2
    /\ call.b.e[1] = call.b.e[2] /\ call.c.e[1] # call.c.e[2]
    /\ call.b.e[1].k = "tuple"
    /\ \E path \in Paths(call.a) :
          /\ Len(path) = 3
          /\ At(call.a, path) = call.b.e[1]
          /\ At(ret, path) = call.c.e[1]

SameKind(from_ids, to_ids) ==
    \A i \in DOMAIN from_ids \cap DOMAIN to_ids : from_ids[i].k = to_ids[i].k

\* C6: when every entry of to_ids has the kind (int or tuple) of the entry
\* of from_ids it replaces, the returned record has the container type and
\* the length of the input record at every nesting depth.
C6_ShapePreserved ==
    (Returned /\ ret # IndexError /\ SameKind(call.b.e, call.c.e)) =>
        Shape(ret) = Shape(call.a)

\* A list holding a nested tuple in which an id was replaced, and a string
\* id (a tuple) replaced by another.
C6_Witness ==
    /\ Returned /\ ret # IndexError /\ SameKind(call.b.e, call.c.e)
    /\ ret # call.a
    /\ call.a.k = "list"
    /\ \E path \in Paths(call.a) :
          /\ Len(path) = 2
          /\ At(call.a, path).k = "tuple"
          /\ At(ret, path) # At(call.a, path)
          /\ At(ret, path).k = "tuple"

\* ------------------------------------------------- simplify and detail
\* The Procedures that are sent: no, one or two operations; arg_ids a list
\* (as constructed) or a tuple (as update_args leaves it); promise_out_id
\* absent, an int or a str.
SerdeOperations ==
    {<<>>}
    \cup {<<Deep(x, Cmd)>> : x \in Leaves}
    \cup {<<Flat(x, PyInt(0)), Nested(PyInt(0), x)>> : x \in Leaves}

SerdeArgIds ==
    {PyList(ids) : ids \in SeqsUpTo(Ids, 2)}
    \cup {PyTuple(ids) : ids \in SeqsUpTo(Ids, 2) \ {<<>>}}

InitSerde ==
    /\ \E operations \in SerdeOperations : heap = <<operations>>
    /\ \E arg_ids \in SerdeArgIds :
       \E result_ids \in SeqsUpTo(Ids, 1) :
       \E promise_out_id \in {PyNone} \cup Ids :
          procs = [n \in {"p"} |->
                      [Procedure(1, arg_ids, PyList(result_ids))
                          EXCEPT !.promise_out_id = promise_out_id]]
    /\ fault = "none"
    /\ call = NoCall
    /\ pre = NoState
    /\ ret = Pending
    /\ hist = NoHist

NextSerde ==
    \/ Simplify("p")
    \/ Detail("d")

SpecSerde == InitSerde /\ [][NextSerde]_vars

\* C2: detail(simplify(p)) is a Procedure with the operations, the arg_ids,
\* the result_ids and the promise_out_id of p.
C2_RoundTrip ==
    call.op = "detail" =>
        /\ Operations("d") = Operations("p")
        /\ procs["d"].arg_ids = procs["p"].arg_ids
        /\ procs["d"].result_ids = procs["p"].result_ids
        /\ procs["d"].promise_out_id = procs["p"].promise_out_id

\* ------------------------------------- one substitution call, and its repeat
\* A Procedure whose two operations hold the ids x and y at three depths,
\* in lists and in tuples, beside leaves that are no ids.
Traced(x, y) ==
    <<PyTuple(<<Cmd, serde_simplify(x),
                PyList(<<serde_simplify(y), PyTuple(<<serde_simplify(x), PyNone>>)>>)>>),
      PyList(<<serde_simplify(y), PyTuple(<<Cmd, serde_simplify(x)>>)>>)>>

\* The worker arguments of update_ids: absent, the falsy id 0, or a name.
WorkerArgs == {PyNone, PyInt(0), PyStr(1)}

InitIds ==
    /\ \E x \in Ids : \E y \in Ids :
          /\ heap = <<Traced(x, y)>>
          /\ procs = [n \in {"p"} |-> Procedure(1, PyList(<<x, y>>), PyList(<<y, x>>))]
    /\ fault = "none"
    /\ call = NoCall
    /\ pre = NoState
    /\ ret = Pending
    /\ hist = NoHist

\* The last update_ids call, made again.
Repeat ==
    /\ call.op = "update_ids"
    /\ hist.ncalls = 1
    /\ UpdateIds(call.self, call.a, call.b, call.c, call.d)

NextIds ==
    \/ /\ hist.ncalls = 0
       /\ \E from_ids \in SeqsUpTo(Ids, 2) : \E to_ids \in SeqsUpTo(Ids, 2) :
             UpdateIds("p", PyList(from_ids), PyList(to_ids), PyNone, PyNone)
    \/ /\ hist.ncalls = 0
       /\ \E from_ids \in SeqsUpTo(Ids, 1) : \E to_ids \in SeqsUpTo(Ids, 1) :
          \E from_worker \in WorkerArgs : \E to_worker \in WorkerArgs :
             UpdateIds("p", PyList(from_ids), PyList(to_ids), from_worker, to_worker)
    \/ /\ hist.ncalls = 0
       /\ \E from_worker_id \in Ids \cup {PyNone} : \E to_worker_id \in Ids \cup {PyNone} :
             UpdateWorkerIds("p", from_worker_id, to_worker_id)
    \/ /\ hist.ncalls = 0
       /\ \E args \in SeqsUpTo(Ids, 2) : \E result_ids \in SeqsUpTo(Ids, 2) :
             UpdateArgs("p", args, PyList(result_ids))
    \/ Repeat

SpecIds == InitIds /\ [][NextIds]_vars

\* ------------------------------------------------------------------ C3
NonEmptyUnequal(from_ids, to_ids) ==
    Len(from_ids) # 0 /\ Len(to_ids) # 0 /\ Len(from_ids) # Len(to_ids)

\* A substitution call whose from_ids and to_ids are non-empty and differ
\* in length.
MismatchedCall ==
    \/ call.op = "update_ids" /\ NonEmptyUnequal(call.a.e, call.b.e)
    \/ /\ call.op = "update_args"
       /\ \/ NonEmptyUnequal(pre.procs[call.self].arg_ids.e, call.a.e)
          \/ NonEmptyUnequal(pre.procs[call.self].result_ids.e, call.b.e)

C4_WorkerRebinding ==
    (call.op = "update_worker_ids" /\ call.a # PyNone /\ call.b # PyNone) =>
        /\ fault = "none"
        /\ AllSubstituted(PreOperations, PostOperations,
                          <<serde_simplify(call.a)>>, <<serde_simplify(call.b)>>)
        /\ procs = pre.procs

\* ------------------------------------------------------------------ C8
\* C8: update_ids changes nothing and raises nothing when neither
\* substitution has both of its inputs; when only the worker substitution
\* has both, it is the one applied; when only the id substitution has
\* both (here: of equal lengths), it is the one applied.
C8_NoOpGuard ==
    call.op = "update_ids" =>
        LET idsGiven == Len(call.a.e) # 0 /\ Len(call.b.e) # 0
            workersGiven == call.c # PyNone /\ call.d # PyNone
        IN  /\ (~idsGiven /\ ~workersGiven) =>
                  heap = pre.heap /\ procs = pre.procs /\ fault = "none"
            /\ (~idsGiven /\ workersGiven) =>
                  /\ fault = "none"
                  /\ procs = pre.procs
                  /\ AllSubstituted(PreOperations, PostOperations,
                                    <<serde_simplify(call.c)>>, <<serde_simplify(call.d)>>)
            /\ (idsGiven /\ ~workersGiven /\ Len(call.a.e) = Len(call.b.e)) =>
                  /\ fault = "none"
                  /\ procs = pre.procs
                  /\ AllSubstituted(PreOperations, PostOperations,
                                    Enc(call.a.e), Enc(call.b.e))

\* ------------------------------------------------------------------ C10
\* update_ids(from_ids=[A, B], to_ids=[B, A]) with A # B and no workers.
SwapCall(c) ==
    /\ c.op = "update_ids"
    /\ Len(c.a.e) = 2
    /\ c.a.e[1] # c.a.e[2]
    /\ c.b.e = <<c.a.e[2], c.a.e[1]>>
    /\ c.c = PyNone /\ c.d = PyNone

\* C10: one pass replaces simultaneously: update_ids([A, B], [B, A]) puts B
\* wherever A was and A wherever B was, in every operation, and the same
\* call made twice gives back the operations it started from.
C10_SwapIsSimultaneous ==
    SwapCall(call) =>
        /\ fault = "none"
        /\ AllSubstituted(PreOperations, PostOperations, Enc(call.a.e), Enc(call.b.e))
        /\ (hist.ncalls = 2 /\ hist.prev.call = call) =>
              heap = hist.prev.pre.heap

\* The swap was made twice on operations holding both ids, an int and a str.
C10_Witness ==
    /\ SwapCall(call)
    /\ hist.ncalls = 2 /\ hist.prev.call = call
    /\ call.a.e[1].k = "int" /\ call.a.e[2].k = "str"
    /\ OccursIn(PreOperations, call.a.e[1])
    /\ OccursIn(PreOperations, call.a.e[2])
    /\ PreOperations # PostOperations

\* ------------------------------------------------------ one update_args call
\* The encoded id at place i of ids, or a leaf that is no id when ids is
\* shorter.
Slot(ids, i) == IF i \in DOMAIN ids THEN serde_simplify(ids[i]) ELSE Cmd

\* The operations traced for a call with these arg ids and result ids: the
\* ids at three depths, in both operations, beside the internal id 0.
TracedCall(arg_ids, result_ids) ==
    <<PyTuple(<<Cmd, Slot(arg_ids, 1),
                PyList(<<Slot(arg_ids, 2), PyTuple(<<Slot(arg_ids, 1), PyInt(0)>>)>>),
                Slot(result_ids, 1)>>),
      PyList(<<Slot(result_ids, 1), PyTuple(<<Slot(arg_ids, 2), PyInt(0)>>)>>)>>

InitArgs ==
    /\ \E arg_ids \in SeqsUpTo(Ids, 2) : \E result_ids \in SeqsUpTo(Ids, 1) :
          /\ heap = <<TracedCall(arg_ids, result_ids)>>
          /\ procs = [n \in {"p"} |-> Procedure(1, PyList(arg_ids), PyList(result_ids))]
    /\ fault = "none"
    /\ call = NoCall
    /\ pre = NoState
    /\ ret = Pending
    /\ hist = NoHist

NextArgs ==
    /\ hist.ncalls = 0
    /\ \E args \in SeqsUpTo(Ids, 2) : \E result_ids \in SeqsUpTo(Ids, 1) :
          UpdateArgs("p", args, PyList(result_ids))

SpecArgs == InitArgs /\ [][NextArgs]_vars

\* ------------------------------------------------------------------ C1
Distinct(ids) == \A i, j \in DOMAIN ids : i # j => ids[i] # ids[j]

\* update_args was called with as many args and result ids as before.
RetargetCall ==
    /\ call.op = "update_args"
    /\ Len(call.a.e) = Len(pre.procs[call.self].arg_ids.e)
    /\ Len(call.b.e) = Len(pre.procs[call.self].result_ids.e)

\* Every position of before that held old_args[i] holds args[i] in after,
\* every position that held old_results[j] holds results[j], and every
\* other position is as it was (ids in their encoded form; the positions
\* are those not inside an id that was replaced).
Retargeted(before, after, old_args, args, old_results, results) ==
    /\ Len(before) = Len(after)
    /\ \A n \in DOMAIN before :
          /\ SameContainer(before[n], after[n])
          /\ \A path \in Paths(before[n]) :
                Reached(before[n], Enc(old_args \o old_results), path) =>
                   LET item == At(before[n], path)
                       now == At(after[n], path)
                   IN  /\ \A i \in DOMAIN old_args :
                             item = serde_simplify(old_args[i]) =>
                                now = serde_simplify(args[i])
                       /\ \A j \in DOMAIN old_results :
                             item = serde_simplify(old_results[j]) =>
                                now = serde_simplify(results[j])
                       /\ ~Matches(item, Enc(old_args \o old_results)) =>
                             IF IsContainer(item)
                             THEN SameContainer(item, now)
                             ELSE now = item

RetargetedAsCalled ==
    /\ fault = "none"
    /\ procs[call.self].arg_ids.e = call.a.e
    /\ procs[call.self].result_ids = call.b
    /\ Retargeted(PreOperations, PostOperations,
                  pre.procs[call.self].arg_ids.e, call.a.e,
                  pre.procs[call.self].result_ids.e, call.b.e)

\* C1 as stated: after update_args(args, new_result_ids) with the lengths
\* of arg_ids and result_ids, for every choice of new ids, arg_ids is the
\* ids of args, result_ids is new_result_ids, every position that held the
\* old arg_ids[i] holds args[i].id, every position that held the old
\* result_ids[j] holds new_result_ids[j], and every other position is
\* unchanged.
C1_Retargets == RetargetCall => RetargetedAsCalled

\* C1 as amended: the same, when the old arg_ids and result_ids are
\* pairwise distinct and no new arg id is one of the old result_ids.
C1_RetargetsWithoutCollision ==
    (/\ RetargetCall
     /\ Distinct(pre.procs[call.self].arg_ids.e \o pre.procs[call.self].result_ids.e)
     /\ \A i \in DOMAIN call.a.e : \A j \in DOMAIN pre.procs[call.self].result_ids.e :
           call.a.e[i] # pre.procs[call.self].result_ids.e[j])
    => RetargetedAsCalled

\* Two args and one result id, all old ids distinct, retargeted to new ids
\* of which one is a str and one was an old arg id; the operations changed.
C1_Witness ==
    /\ RetargetCall
    /\ Len(call.a.e) = 2 /\ Len(call.b.e) = 1
    /\ Distinct(pre.procs[call.self].arg_ids.e \o pre.procs[call.self].result_ids.e)
    /\ call.a.e[1] # pre.procs[call.self].result_ids.e[1]
    /\ call.a.e[2] # pre.procs[call.self].result_ids.e[1]
    /\ call.a.e[1] = pre.procs[call.self].arg_ids.e[2]
    /\ call.a.e[2].k = "str"
    /\ call.b.e[1] # pre.procs[call.self].result_ids.e[1]
    /\ fault = "none"
    /\ \A n \in DOMAIN PreOperations : PreOperations[n] # PostOperations[n]

\* --------------------------------------------------- copies and retargeting
\* A traced Procedure with one arg and one result, copied at most once, and
\* at most MaxCalls substitution calls on the original and on the copy.
Init ==
    /\ \E x \in IntIds : \E y \in StrIds :
          /\ heap = <<Traced(x, y)>>
          /\ procs = [n \in {"p"} |-> Procedure(1, PyList(<<x>>), PyList(<<y>>))]
    /\ fault = "none"
    /\ call = NoCall
    /\ pre = NoState
    /\ ret = Pending
    /\ hist = NoHist

Next ==
    \/ Copy("p", "q")
    \/ /\ hist.ncalls < MaxCalls
       /\ \E self \in {"p", "q"} : \E a \in IntIds :
             UpdateArgs(self, <<a>>, PyList(<<PyStr(1)>>))
    \/ /\ hist.ncalls < MaxCalls
       /\ \E self \in {"p", "q"} : \E a \in IntIds :
             UpdateIds(self, PyList(<<a>>), PyList(<<PyStr(MaxStr)>>), PyNone, PyNone)
    \/ /\ hist.ncalls < MaxCalls
       /\ \E self \in {"p", "q"} : \E w \in StrIds :
             UpdateWorkerIds(self, w, PyInt(1))

Spec == Init /\ [][Next]_vars

\* ------------------------------------------------------------------ C7
\* The three attributes of Procedure n in a snapshot of the program.
Content(state, n) ==
    [operations |-> state.heap[state.procs[n].operations],
     arg_ids |-> state.procs[n].arg_ids,
     result_ids |-> state.procs[n].result_ids]

Copied == hist.atcopy # NoState

\* C7: once q = p.copy() is taken, a substitution call on one of the two
\* leaves the operations, arg_ids and result_ids of the other as they
\* were, so that whichever of them has had no call since the copy is
\* exactly what it was when the copy was taken.
C7_IndependentAfterCopy ==
    Copied =>
       /\ \A n \in DOMAIN procs \ hist.touched :
             Content(Snapshot, n) = Content(hist.atcopy, n)
       /\ call.op \in {"update_args", "update_ids", "update_worker_ids"} =>
             \A n \in DOMAIN pre.procs \ {call.self} :
                Content(Snapshot, n) = Content(pre, n)

\* Two calls on the copy, each of which changed the copy's operations, with
\* the copy's arg_ids changed as well.
C7_Witness ==
    /\ Copied
    /\ hist.touched = {"q"}
    /\ hist.ncalls = 2
    /\ hist.prev.call.self = "q"
    /\ hist.prev.pre # NoState
    /\ pre.heap[pre.procs["q"].operations]
          # hist.prev.pre.heap[hist.prev.pre.procs["q"].operations]
    /\ Operations("q") # pre.heap[pre.procs["q"].operations]
    /\ procs["q"].arg_ids # hist.atcopy.procs["q"].arg_ids

\* ------------------------------------------------------------------ replay
\* The ids a replayed Procedure is given: integers and one name.
ReplayIds == {PyInt(n) : n \in 0..(MaxInt + MaxFresh)} \cup {PyStr(1)}

\* A call of update_args that supplies as many args and result ids as
\* before, pairwise distinct, none of which occurs in the operations, the
\* arg_ids or the result_ids of self.
ReplayCall(self, args, result_ids) ==
    /\ Len(args) = Len(procs[self].arg_ids.e)
    /\ Len(result_ids) = Len(procs[self].result_ids.e)
    /\ Distinct(args \o result_ids)
    /\ \A i \in DOMAIN (args \o result_ids) :
          LET id == (args \o result_ids)[i]
          IN  /\ \A j \in DOMAIN procs[self].arg_ids.e : procs[self].arg_ids.e[j] # id
              /\ \A j \in DOMAIN procs[self].result_ids.e : procs[self].result_ids.e[j] # id
              /\ ~OccursIn(Operations(self), id)

InitReplay ==
    /\ \E arg_ids \in SeqsUpTo(IntIds, 2) : \E result_ids \in SeqsUpTo({PyStr(1)}, 1) :
          /\ Distinct(arg_ids)
          /\ heap = <<TracedCall(arg_ids, result_ids)>>
          /\ procs = [n \in {"p"} |-> Procedure(1, PyList(arg_ids), PyList(result_ids))]
    /\ fault = "none"
    /\ call = NoCall
    /\ pre = NoState
    /\ ret = Pending
    /\ hist = [NoHist EXCEPT !.orig = [heap |-> heap, procs |-> procs]]

\* The Procedure is retargeted again and again; only the first state is
\* remembered.
NextReplay ==
    \E args \in SeqsUpTo(ReplayIds, 2) : \E result_ids \in SeqsUpTo(ReplayIds, 1) :
        /\ ReplayCall("p", args, result_ids)
        /\ UpdateArgsEffect("p", args, PyList(result_ids))
        /\ UNCHANGED <<pre, ret, hist>>

SpecReplay == InitReplay /\ [][NextReplay]_vars

\* ------------------------------------------------------------------ C9
\* The positions, at any depth of any operation, that hold the id.
Holding(operations, id) ==
    {q \in UNION {{<<n>> \o path : path \in Paths(operations[n])} :
                      n \in DOMAIN operations} :
        At(operations[Head(q)], Tail(q)) = serde_simplify(id)}

\* C9: however often a Procedure with pairwise distinct ids is retargeted
\* to unused, pairwise distinct ids, it keeps the number of its operations,
\* arg_ids and result_ids, and the positions holding its current arg_ids[i]
\* (result_ids[j]) are exactly those that held arg_ids[i] (result_ids[j])
\* at the start.
C9_ReplayInvariant ==
    LET first == Content(hist.orig, "p")
        now == Content(Snapshot, "p")
    IN  /\ fault = "none"
        /\ Len(now.operations) = Len(first.operations)
        /\ DOMAIN now.arg_ids.e = DOMAIN first.arg_ids.e
        /\ DOMAIN now.result_ids.e = DOMAIN first.result_ids.e
        /\ \A i \in DOMAIN now.arg_ids.e :
              Holding(now.operations, now.arg_ids.e[i])
                 = Holding(first.operations, first.arg_ids.e[i])
        /\ \A j \in DOMAIN now.result_ids.e :
              Holding(now.operations, now.result_ids.e[j])
                 = Holding(first.operations, first.result_ids.e[j])

\* After more than one replay: the first arg now has the id the result had
\* at the start, which no single replay may give it, and none of the three
\* ids is the one it was.
C9_Witness ==
    LET first == Content(hist.orig, "p")
        now == Content(Snapshot, "p")
    IN  /\ call.op = "update_args"
        /\ Len(now.arg_ids.e) = 2 /\ Len(now.result_ids.e) = 1
        /\ now.arg_ids.e[1] = first.result_ids.e[1]
        /\ now.arg_ids.e[2] # first.arg_ids.e[2]
        /\ now.result_ids.e[1] = first.arg_ids.e[2]
        /\ Holding(now.operations, now.arg_ids.e[1]) # {}
        /\ Holding(now.operations, now.arg_ids.e[1])
              # Holding(now.operations, now.arg_ids.e[2])

=============================================================================
